---- MODULE Spec2Model ----
(***************************************************************************)
(* Model of the lead-cleaning task of tmanguel/limpieza-de-leads:          *)
(* src/app.py (the web entry point that enqueues the task) and             *)
(* src/tasks.py (process_csv_task, mx_lookup, evaluate_lead_with_retry,    *)
(* evaluate_lead, send_email, upload_to_google_drive).                     *)
(*                                                                         *)
(* A run of process_csv_task is a small state machine over pc[t]; every    *)
(* variable is a function of the task instance t, because each Celery      *)
(* task invocation has its own locals.  The collaborators (DNS, the LLM,   *)
(* Google Drive, SMTP) are the environment: their answers are chosen with  *)
(* \E in the action that calls them.                                       *)
(***************************************************************************)
EXTENDS Integers, Sequences, FiniteSets, TLC

(***************************************************************************)
(* Bounds of the model and constants of the program.                       *)
(***************************************************************************)
\* Longest CSV body (number of data rows) explored by the pipeline specification.
MaxRows == 2
\* Number of task slots; Spec starts one run, the other slots stay "off".
MaxTasks == 2
\* Longest MX answer list explored by the lookup specification.
MaxMx == 3

\* Longest period of the company pattern of a long input.
MaxPeriod == 3
\* Longest header explored by the resolver specification.
MaxColumns == 2

\* tasks.py:175  bundle_number = (employee_number - 1) // 50 + 1
BundleSize == 50
\* tasks.py:233  def evaluate_lead_with_retry(..., retries=3, delay=5)
Retries == 3

Tasks == 1..MaxTasks

\* Python's None, as a dict key (csv.DictReader's restkey), as a cell value
\* (DictReader's restval) and as "no key found".
None == "<None>"

Range(s) == {s[i] : i \in DOMAIN s}

Min(S) == CHOOSE x \in S : \A y \in S : x <= y

(***************************************************************************)
(* Python dicts: insertion-ordered keys and a value per key.               *)
(***************************************************************************)
EmptyDict == [keys |-> <<>>, val |-> <<>>]

HasKey(d, k) == k \in Range(d.keys)

\* d.get(k, default)
DictGet(d, k, default) == IF HasKey(d, k) THEN d.val[k] ELSE default

\* d[k] = v : a new key goes last, an existing key keeps its place.
DictSet(d, k, v) ==
    IF HasKey(d, k)
    THEN [d EXCEPT !.val = [x \in DOMAIN d.val |-> IF x = k THEN v ELSE d.val[x]]]
    ELSE [keys |-> Append(d.keys, k), val |-> (k :> v) @@ d.val]

(***************************************************************************)
(* csv.DictReader: the row for one line of values under the fieldnames.    *)
(* More values than fieldnames: the surplus is a list under the key None.  *)
(* Fewer values: the missing fields hold None.                             *)
(***************************************************************************)
DictReaderRow(fieldnames, values) ==
    LET lf == Len(fieldnames)
        lr == Len(values)
        base == [keys |-> fieldnames,
                 val  |-> [k \in Range(fieldnames) |->
                            LET i == CHOOSE j \in 1..lf : fieldnames[j] = k
                            IN  IF i <= lr THEN values[i] ELSE None]]
    IN  IF lf < lr THEN DictSet(base, None, SubSeq(values, lf + 1, lr)) ELSE base

(***************************************************************************)
(* Column Resolver: tasks.py:168, 180, 271.                                *)
(*   next((key for key in row.keys() if re.match(PATTERN, key)), None)     *)
(* re.match anchors the pattern at the start of the key and (?i) ignores   *)
(* case.  The column names of the model, and for each pattern the names    *)
(* re.match accepts:                                                       *)
(*   company  (?i)(organization name|company|company name|organization)    *)
(*   email    (?i)email                                                    *)
(*   title    (?i)title                                                    *)
(* "Work Email", "Job Title" and "Parent Company" hold the word but not at *)
(* the start, so re.match rejects them.  re.match(pattern, None) raises    *)
(* TypeError.                                                              *)
(***************************************************************************)
CompanyColumns == {"Company Name", "COMPANY NAME", "Organization", "company"}
EmailColumns == {"Email", "email address"}
TitleColumns == {"Title", "title"}
PlainColumns == {"Work Email", "Job Title", "Parent Company", "Phone"}
DerivedColumns == <<"Limpio", "Bundle", "MX Result">>
ColumnNames == CompanyColumns \cup EmailColumns \cup TitleColumns \cup PlainColumns

MatchCompany(key) == key \in CompanyColumns
MatchEmail(key) == key \in EmailColumns
MatchTitle(key) == key \in TitleColumns
\* re.match(pattern, key) for the three patterns of the code.
Matches(pattern, key) ==
    CASE pattern = "company" -> MatchCompany(key)
      [] pattern = "email" -> MatchEmail(key)
      [] pattern = "title" -> MatchTitle(key)

\* The generator is consumed in key order; it stops at the first match and
\* raises at a None key it reaches before any match.
ResolveKey(keys, pattern) ==
    LET stops == {i \in 1..Len(keys) : keys[i] = None \/ Matches(pattern, keys[i])}
    IN  IF stops = {} THEN [tag |-> "none", key |-> None]
        ELSE LET i == Min(stops)
             IN  IF keys[i] = None THEN [tag |-> "TypeError", key |-> None]
                 ELSE [tag |-> "key", key |-> keys[i]]

(***************************************************************************)
(* Bundle Assigner: tasks.py:171-175.                                      *)
(***************************************************************************)
\* company_counts.setdefault(company_name, {'count': 0})
\* Variant: the entry is set to zero whether or not the company is known.
SetDefaultResets(counts, name) == (name :> 0) @@ counts

SetDefault(counts, name) ==
    IF name \in DOMAIN counts THEN counts ELSE (name :> 0) @@ counts

\* company_counts[company_name]['count'] += 1
Increment(counts, name) == [counts EXCEPT ![name] = @ + 1]

\* bundle_number = (employee_number - 1) // 50 + 1
\* Variant: the count is not brought back to 0-based before the division.
BundleNumberOffByOne(employee_number) == employee_number \div BundleSize + 1

BundleNumber(employee_number) == (employee_number - 1) \div BundleSize + 1

(***************************************************************************)
(* Provider Classifier, the scan of one answer list: tasks.py:90-107 and   *)
(* 117-134 (the two copies are the same code).  A hostname is classified   *)
(* by substring tests; the hostnames of the model, and the test each       *)
(* passes:                                                                 *)
(***************************************************************************)
GmailHosts == {"aspmx.l.google.com", "mx.google.com.outlook.com"}
OutlookHosts == {"acme-com.mail.protection.outlook.com", "mx.google.com.outlook.com"}
Hosts == GmailHosts \cup OutlookHosts \cup {"mx.zoho.com"}

\* any(provider in mx for provider in ["google.com", "googlemail.com", "gmail.com"])
IsGmail(mx) == mx \in GmailHosts
\* any(provider in mx for provider in ["outlook.com", "hotmail.com", "microsoft.com", "office365.com"])
IsOutlook(mx) == mx \in OutlookHosts

\* for answer in answers: if gmail: "Gmail" elif outlook: "Outlook"; break
RECURSIVE ScanAnswers(_, _, _)
ScanAnswers(answers, i, email_provider) ==
    IF i > Len(answers) THEN email_provider
    ELSE IF IsGmail(answers[i]) THEN ScanAnswers(answers, i + 1, "Gmail")
    ELSE IF IsOutlook(answers[i]) THEN "Outlook"
    ELSE ScanAnswers(answers, i + 1, email_provider)

ProviderOf(answers) ==
    IF answers = <<>> THEN "No MX Records"
    ELSE LET email_provider == ScanAnswers(answers, 1, "")
         IN  IF email_provider = "" THEN "Other" ELSE email_provider

(***************************************************************************)
(* Cell values of the model, and the string tests the row pipeline makes   *)
(* on an email cell (tasks.py:182-186).                                    *)
(***************************************************************************)
CompanyValues == {"Acme", "Beta"}
EmailValues == {"", "nomail", " a@x.com "}
TitleValues == {"CEO"}
PlainValues == {"x"}

ValuesFor(column) ==
    IF column \in CompanyColumns THEN CompanyValues
    ELSE IF column \in EmailColumns THEN EmailValues
    ELSE IF column \in TitleColumns THEN TitleValues
    ELSE PlainValues

\* Python truthiness of a cell: None and "" are falsy.
Truthy(value) == value # None /\ value # ""
\* str.strip()
Strip(value) == IF value = " a@x.com " THEN "a@x.com" ELSE value
\* '@' in email
HasAt(email) == email \in {"a@x.com", " a@x.com "}
\* email.split('@')[1]
DomainOf(email) == IF email = "a@x.com" THEN "x.com" ELSE "x.com "
\* isinstance(position, str): str.replace raises TypeError on anything else.
IsStr(value) == value # None

(***************************************************************************)
(* Inputs: the parsed CSV payload a request carries.  header = <<>> is a   *)
(* payload without a header row (csv_reader.fieldnames is None or []).     *)
(***************************************************************************)
SeqUpTo(S, n) == UNION {[1..k -> S] : k \in 0..n}

FullRows(header) ==
    {values \in [1..Len(header) -> UNION {ValuesFor(header[i]) : i \in 1..Len(header)}] :
        \A i \in 1..Len(header) : values[i] \in ValuesFor(header[i])}

\* The cell a row with a surplus cell holds under a column.
SurplusRowValue(column) ==
    IF column \in CompanyColumns THEN "Acme"
    ELSE IF column \in EmailColumns THEN " a@x.com "
    ELSE IF column \in TitleColumns THEN "CEO"
    ELSE "x"

\* Every full row, every full row cut short by its last cell, and one row with
\* one surplus cell.
RowsFor(header) ==
    FullRows(header)
    \cup {SubSeq(values, 1, Len(values) - 1) : values \in FullRows(header)}
    \cup {Append([i \in 1..Len(header) |-> SurplusRowValue(header[i])], "x")}

NoHeader == [header |-> <<>>, rows |-> <<>>]

Inputs(headers, maxRows) ==
    {NoHeader} \cup
    UNION {{[header |-> h, rows |-> rs] : rs \in SeqUpTo(RowsFor(h), maxRows)} : h \in headers}

PipelineHeaders == {<<"Company Name", "Title", "Email">>, <<"Work Email", "Phone">>}

(***************************************************************************)
(* The environment's answers.                                              *)
(***************************************************************************)
\* One DNS lookup: it answers with a (possibly empty) list of MX hostnames, or
\* it fails (non-200 status, network error, malformed payload; resolver error).
NotCalled == [called |-> FALSE, status |-> "none", answers |-> <<>>]
DnsAnswer(answers) == [called |-> TRUE, status |-> "ok", answers |-> answers]
DnsFailure(why) == [called |-> TRUE, status |-> why, answers |-> <<>>]

PrimaryFailures == {DnsFailure("non-200"), DnsFailure("network"), DnsFailure("malformed")}
FallbackFailures == {DnsFailure("resolver")}
AllDnsAnswers == {DnsAnswer(a) : a \in SeqUpTo(Hosts, MaxMx)}
\* The answers the pipeline specification draws from: one of each kind.
FewPrimary == {DnsFailure("network"), DnsAnswer(<<"aspmx.l.google.com">>)}
FewFallback == {DnsFailure("resolver"), DnsAnswer(<<"acme-com.mail.protection.outlook.com">>)}

\* One call of evaluate_lead: what it returns, or the exception it raises.
LlmReturns == {"Text", "Blocked", "NoContent"}
LlmRetryable == {"DeadlineExceeded", "RetryError", "ResourceExhausted", "TypeError"}
LlmFatal == {"PermissionDenied", "Unauthenticated"}
LlmOutcomes == LlmReturns \cup (LlmRetryable \ {"TypeError"}) \cup LlmFatal

\* tasks.py:297, 302, 313: the value evaluate_lead returns.
LabelOf(outcome) ==
    CASE outcome = "Text" -> "Si"
      [] outcome = "Blocked" -> "Blocked (SAFETY)"
      [] outcome = "NoContent" -> "No Content"

\* The outcomes the pipeline specification draws from: one of each kind.
FewLlmOutcomes == {"Text", "DeadlineExceeded", "PermissionDenied"}

UploadOutcomes == {"link", "Google Drive upload failed", "Google service account info not found"}

(***************************************************************************)
(* State.                                                                  *)
(***************************************************************************)
VARIABLES
    pc,              \* where each run stands
    csv,             \* the payload of the request: [header, rows]
    idx,             \* rows csv_reader has yielded so far
    company_counts,  \* tasks.py:160
    row,             \* the dict of the row being processed
    output,          \* lines written to the temporary file, header first
    tmp,             \* the temporary file: "none", "open", "closed", "deleted"
    uploads,         \* calls of upload_to_google_drive
    mails,           \* calls of send_email, in order
    result,          \* what the run returned: [kind, text]
    exc,             \* str(e) of the exception caught at tasks.py:223
    attempt,         \* loop variable of evaluate_lead_with_retry
    delays,          \* time.sleep(delay) calls of evaluate_lead_with_retry for this row
    llmLog,          \* outcomes of the evaluate_lead calls for this row
    mxPrimary,       \* the DNS-over-HTTPS lookup made for this row
    mxFallback,      \* the dns.resolver lookup made for this row
    mxCalls          \* calls of mx_lookup for this row

rowVars == <<row, attempt, delays, llmLog, mxPrimary, mxFallback, mxCalls>>
fileVars == <<output, tmp>>
endVars == <<uploads, mails, result, exc>>
vars == <<pc, csv, idx, company_counts, rowVars, fileVars, endVars>>

NoResult == [kind |-> "none", text |-> ""]

InitWith(inputs) ==
    /\ pc = [t \in Tasks |-> IF t = 1 THEN "request" ELSE "off"]
    /\ \E input \in inputs : csv = [t \in Tasks |-> IF t = 1 THEN input ELSE NoHeader]
    /\ idx = [t \in Tasks |-> 0]
    /\ company_counts = [t \in Tasks |-> <<>>]
    /\ row = [t \in Tasks |-> EmptyDict]
    /\ output = [t \in Tasks |-> <<>>]
    /\ tmp = [t \in Tasks |-> "none"]
    /\ uploads = [t \in Tasks |-> 0]
    /\ mails = [t \in Tasks |-> <<>>]
    /\ result = [t \in Tasks |-> NoResult]
    /\ exc = [t \in Tasks |-> ""]
    /\ attempt = [t \in Tasks |-> 0]
    /\ delays = [t \in Tasks |-> 0]
    /\ llmLog = [t \in Tasks |-> <<>>]
    /\ mxPrimary = [t \in Tasks |-> NotCalled]
    /\ mxFallback = [t \in Tasks |-> NotCalled]
    /\ mxCalls = [t \in Tasks |-> 0]

Init == InitWith(Inputs(PipelineHeaders, MaxRows))

(***************************************************************************)
(* app.py:14-41  clean_lead_list: the web entry point.  It rejects a       *)
(* request without a prompt, without a file or with an undecodable file,   *)
(* and otherwise enqueues process_csv_task and answers "started".  It      *)
(* sends no email and never looks at the task's result.                    *)
(***************************************************************************)
RequestFlaws == {"none", "No prompt provided", "No CSV file provided", "Failed to decode file"}

clean_lead_list(t) ==
    /\ pc[t] = "request"
    /\ \E flaw \in RequestFlaws :
          pc' = [pc EXCEPT ![t] = IF flaw = "none" THEN "queued" ELSE "rejected"]
    /\ UNCHANGED <<csv, idx, company_counts, rowVars, fileVars, endVars>>

(***************************************************************************)
(* tasks.py:36-70  send_email: one call, whatever becomes of the message.  *)
(* Without the four EMAIL_* settings it logs and returns (43-45); any      *)
(* exception of building or sending the message is caught and logged       *)
(* (68-69); the function returns None on every path.  The "no recipients"  *)
(* return (50-52) needs an empty to_emails, which neither caller passes.   *)
(***************************************************************************)
MailOutcomes == {"sent", "no credentials", "smtp error"}

send_email(sent, subject, to_emails, outcome) ==
    Append(sent, [subject |-> subject, to |-> to_emails, outcome |-> outcome])

(***************************************************************************)
(* tasks.py:146-158  ParsingHeader: without fieldnames the task returns    *)
(* the error at once; with them it creates the temporary file, writes the  *)
(* output header and starts with empty counters.                           *)
(***************************************************************************)
\* Variant: the derived columns in another order.
OutputHeaderMxFirst(fieldnames) == fieldnames \o <<"MX Result", "Limpio", "Bundle">>

OutputHeader(fieldnames) == fieldnames \o DerivedColumns

\* Variant: the fieldnames are not tested.
ParseHeaderUnchecked(t) ==
    /\ pc[t] = "queued"
    /\ tmp' = [tmp EXCEPT ![t] = "open"]
    /\ output' = [output EXCEPT ![t] = <<OutputHeader(csv[t].header)>>]
    /\ company_counts' = [company_counts EXCEPT ![t] = <<>>]
    /\ pc' = [pc EXCEPT ![t] = "rows"]
    /\ UNCHANGED <<csv, idx, rowVars, uploads, mails, result, exc>>

ParseHeader(t) ==
    /\ pc[t] = "queued"
    /\ IF csv[t].header = <<>>
       THEN /\ result' = [result EXCEPT ![t] =
                            [kind |-> "error", text |-> "CSV data is missing headers."]]
            /\ pc' = [pc EXCEPT ![t] = "done"]
            /\ UNCHANGED <<company_counts, fileVars>>
       ELSE /\ tmp' = [tmp EXCEPT ![t] = "open"]
            /\ output' = [output EXCEPT ![t] = <<OutputHeader(csv[t].header)>>]
            /\ company_counts' = [company_counts EXCEPT ![t] = <<>>]
            /\ pc' = [pc EXCEPT ![t] = "rows"]
            /\ UNCHANGED result
    /\ UNCHANGED <<csv, idx, rowVars, uploads, mails, exc>>

(***************************************************************************)
(* tasks.py:162-197  one turn of the row loop up to the provider lookup:   *)
(* read the row, resolve the company, count it, set Bundle, resolve the    *)
(* email and either set the MX sentinel or call mx_lookup.  The            *)
(* isinstance(row, dict) test at 163 never fails for a DictReader row.     *)
(* An exception leaves the with block (the file is closed, not deleted)    *)
(* and is caught at 223.                                                   *)
(***************************************************************************)
\* tasks.py:168-176 on a fresh row: the counters and the row after them, or the
\* TypeError of re.match on the None key.
\* Variant: a row without a company column is not counted and gets bundle 1.
AssignBundleExemptsUnknown(counts, r) ==
    LET company_key == ResolveKey(r.keys, "company")
        company_name == DictGet(r, company_key.key, "Unknown Company")
        counted == Increment(SetDefault(counts, company_name), company_name)
    IN  IF company_key.tag = "TypeError"
        THEN [raised |-> TRUE, counts |-> counts, row |-> r]
        ELSE IF company_key.tag = "none"
        THEN [raised |-> FALSE, counts |-> counts, row |-> DictSet(r, "Bundle", 1)]
        ELSE [raised |-> FALSE, counts |-> counted,
              row |-> DictSet(r, "Bundle", BundleNumber(counted[company_name]))]

AssignBundle(counts, r) ==
    LET company_key == ResolveKey(r.keys, "company")
        company_name == DictGet(r, company_key.key, "Unknown Company")
        counted == Increment(SetDefault(counts, company_name), company_name)
    IN  IF company_key.tag = "TypeError"
        THEN [raised |-> TRUE, counts |-> counts, row |-> r]
        ELSE [raised |-> FALSE, counts |-> counted,
              row |-> DictSet(r, "Bundle", BundleNumber(counted[company_name]))]

\* tasks.py:180-197: "lookup" when mx_lookup is to be called, else the sentinel,
\* or the TypeError of re.match on the None key.
\* Variant: the '@' test is missing.
EmailBranchNoAtTest(r) ==
    LET email_key == ResolveKey(r.keys, "email")
    IN  IF email_key.tag = "TypeError" THEN "TypeError"
        ELSE IF email_key.tag = "key" /\ Truthy(r.val[email_key.key])
             THEN "lookup"
             ELSE "No Email"

EmailBranch(r) ==
    LET email_key == ResolveKey(r.keys, "email")
    IN  IF email_key.tag = "TypeError" THEN "TypeError"
        ELSE IF email_key.tag = "key" /\ Truthy(r.val[email_key.key])
             THEN IF HasAt(Strip(r.val[email_key.key])) THEN "lookup" ELSE "Invalid Email"
             ELSE "No Email"

\* The records kept for one row (the locals of the calls made for it) last until
\* the for statement asks the reader for the next row.
RowDone(t) ==
    /\ attempt' = [attempt EXCEPT ![t] = 0]
    /\ delays' = [delays EXCEPT ![t] = 0]
    /\ llmLog' = [llmLog EXCEPT ![t] = <<>>]
    /\ mxPrimary' = [mxPrimary EXCEPT ![t] = NotCalled]
    /\ mxFallback' = [mxFallback EXCEPT ![t] = NotCalled]

\* Variant: one company_counts dict at module level, shared by every run.
ReadRowSharedCounts(t) ==
    /\ pc[t] = "rows"
    /\ idx[t] < Len(csv[t].rows)
    /\ idx' = [idx EXCEPT ![t] = @ + 1]
    /\ LET fresh == DictReaderRow(csv[t].header, csv[t].rows[idx[t] + 1])
           bundled == AssignBundle(company_counts[1], fresh)
           branch == EmailBranch(bundled.row)
           failed == bundled.raised \/ branch = "TypeError"
       IN  /\ company_counts' = [company_counts EXCEPT ![1] = bundled.counts]
           /\ row' = [row EXCEPT ![t] =
                        IF failed \/ branch = "lookup" THEN bundled.row
                        ELSE DictSet(bundled.row, "MX Result", branch)]
           /\ mxCalls' = [mxCalls EXCEPT ![t] = IF ~failed /\ branch = "lookup" THEN 1 ELSE 0]
           /\ pc' = [pc EXCEPT ![t] =
                        IF failed THEN "except" ELSE IF branch = "lookup" THEN "mx1" ELSE "llm"]
           /\ exc' = [exc EXCEPT ![t] = IF failed THEN "expected string or bytes-like object" ELSE @]
           /\ tmp' = [tmp EXCEPT ![t] = IF failed THEN "closed" ELSE @]
    /\ RowDone(t)
    /\ UNCHANGED <<csv, output, uploads, mails, result>>

ReadRow(t) ==
    /\ pc[t] = "rows"
    /\ idx[t] < Len(csv[t].rows)
    /\ idx' = [idx EXCEPT ![t] = @ + 1]
    /\ LET fresh == DictReaderRow(csv[t].header, csv[t].rows[idx[t] + 1])
           bundled == AssignBundle(company_counts[t], fresh)
           branch == EmailBranch(bundled.row)
           failed == bundled.raised \/ branch = "TypeError"
       IN  /\ company_counts' = [company_counts EXCEPT ![t] = bundled.counts]
           /\ row' = [row EXCEPT ![t] =
                        IF failed \/ branch = "lookup" THEN bundled.row
                        ELSE DictSet(bundled.row, "MX Result", branch)]
           /\ mxCalls' = [mxCalls EXCEPT ![t] = IF ~failed /\ branch = "lookup" THEN 1 ELSE 0]
           /\ pc' = [pc EXCEPT ![t] =
                        IF failed THEN "except" ELSE IF branch = "lookup" THEN "mx1" ELSE "llm"]
           /\ exc' = [exc EXCEPT ![t] = IF failed THEN "expected string or bytes-like object" ELSE @]
           /\ tmp' = [tmp EXCEPT ![t] = IF failed THEN "closed" ELSE @]
    /\ RowDone(t)
    /\ UNCHANGED <<csv, output, uploads, mails, result>>

(***************************************************************************)
(* tasks.py:72-142  mx_lookup, in two steps: the DNS-over-HTTPS lookup     *)
(* (79-110) and, only when that raised, the resolver lookup (114-138).     *)
(* Whatever it returns becomes row['MX Result'] (tasks.py:189-190).        *)
(***************************************************************************)
\* Variant: an answer without MX records is taken for a failure.
MxPrimaryFallsBackOnEmpty(t, responses) ==
    /\ pc[t] = "mx1"
    /\ \E response \in responses :
          /\ mxPrimary' = [mxPrimary EXCEPT ![t] = response]
          /\ IF response.status = "ok" /\ response.answers # <<>>
             THEN /\ row' = [row EXCEPT ![t] = DictSet(@, "MX Result", ProviderOf(response.answers))]
                  /\ pc' = [pc EXCEPT ![t] = "llm"]
             ELSE /\ pc' = [pc EXCEPT ![t] = "mx2"]
                  /\ UNCHANGED row
    /\ UNCHANGED <<csv, idx, company_counts, attempt, delays, llmLog, mxFallback, mxCalls,
                   fileVars, endVars>>

MxPrimary(t, responses) ==
    /\ pc[t] = "mx1"
    /\ \E response \in responses :
          /\ mxPrimary' = [mxPrimary EXCEPT ![t] = response]
          /\ IF response.status = "ok"
             THEN /\ row' = [row EXCEPT ![t] = DictSet(@, "MX Result", ProviderOf(response.answers))]
                  /\ pc' = [pc EXCEPT ![t] = "llm"]
             ELSE /\ pc' = [pc EXCEPT ![t] = "mx2"]
                  /\ UNCHANGED row
    /\ UNCHANGED <<csv, idx, company_counts, attempt, delays, llmLog, mxFallback, mxCalls,
                   fileVars, endVars>>

\* Variant: the row is written as soon as the provider is known, before the
\* classification.
MxFallbackWritesFirst(t, responses) ==
    /\ pc[t] = "mx2"
    /\ \E response \in responses :
          /\ mxFallback' = [mxFallback EXCEPT ![t] = response]
          /\ row' = [row EXCEPT ![t] = DictSet(@, "MX Result",
                        IF response.status = "ok" THEN ProviderOf(response.answers) ELSE "ERROR")]
    /\ pc' = [pc EXCEPT ![t] = "write"]
    /\ UNCHANGED <<csv, idx, company_counts, attempt, delays, llmLog, mxPrimary, mxCalls,
                   fileVars, endVars>>

MxFallback(t, responses) ==
    /\ pc[t] = "mx2"
    /\ \E response \in responses :
          /\ mxFallback' = [mxFallback EXCEPT ![t] = response]
          /\ row' = [row EXCEPT ![t] = DictSet(@, "MX Result",
                        IF response.status = "ok" THEN ProviderOf(response.answers) ELSE "ERROR")]
    /\ pc' = [pc EXCEPT ![t] = "llm"]
    /\ UNCHANGED <<csv, idx, company_counts, attempt, delays, llmLog, mxPrimary, mxCalls,
                   fileVars, endVars>>

(***************************************************************************)
(* tasks.py:268-322  evaluate_lead: resolving the title and building the   *)
(* prompt (271-273) happen before the try and raise TypeError when the     *)
(* generator reaches the None key or the title cell is None; otherwise the *)
(* call returns or raises what the LLM service makes it.                   *)
(***************************************************************************)
PromptFails(r) ==
    LET position_key == ResolveKey(r.keys, "title")
    IN  \/ position_key.tag = "TypeError"
        \/ ~IsStr(DictGet(r, position_key.key, "Unknown Position"))

evaluate_lead(r, outcomes) == IF PromptFails(r) THEN {"TypeError"} ELSE outcomes

(***************************************************************************)
(* tasks.py:233-266  evaluate_lead_with_retry, one turn of its loop: what  *)
(* a handler does with the outcome of this attempt.  "return": the value   *)
(* is returned; "raise": the exception leaves the function; "sleep": the   *)
(* function sleeps `delay` and goes round again.                           *)
(***************************************************************************)
\* Variant: the function sleeps after the last attempt too.
RetryHandlerSleepsAfterLast(outcome, n) ==
    IF outcome \in LlmReturns THEN "return"
    ELSE IF outcome \in LlmFatal THEN "raise"
    ELSE IF n < Retries THEN "sleep" ELSE "raise"

\* Variant: no handler of its own for the authentication and permission errors.
RetryHandlerRetriesFatal(outcome, n) ==
    IF outcome \in LlmReturns THEN "return"
    ELSE IF n < Retries - 1 THEN "sleep" ELSE "raise"

RetryHandler(outcome, n) ==
    IF outcome \in LlmReturns THEN "return"
    ELSE IF outcome \in LlmFatal THEN "raise"
    ELSE IF n < Retries - 1 THEN "sleep" ELSE "raise"

\* Variant: the call at tasks.py:201 is not wrapped in try/except.
LlmAttemptPropagates(t, outcomes) ==
    /\ pc[t] = "llm"
    /\ \E outcome \in evaluate_lead(row[t], outcomes) :
          LET handler == RetryHandler(outcome, attempt[t])
          IN  /\ llmLog' = [llmLog EXCEPT ![t] = Append(@, outcome)]
              /\ IF handler = "sleep"
                 THEN /\ delays' = [delays EXCEPT ![t] = @ + 1]
                      /\ attempt' = [attempt EXCEPT ![t] = @ + 1]
                      /\ UNCHANGED <<row, pc, exc, tmp>>
                 ELSE IF handler = "return"
                 THEN /\ row' = [row EXCEPT ![t] = DictSet(@, "Limpio", LabelOf(outcome))]
                      /\ pc' = [pc EXCEPT ![t] = "write"]
                      /\ UNCHANGED <<delays, attempt, exc, tmp>>
                 ELSE /\ pc' = [pc EXCEPT ![t] = "except"]
                      /\ exc' = [exc EXCEPT ![t] = outcome]
                      /\ tmp' = [tmp EXCEPT ![t] = "closed"]
                      /\ UNCHANGED <<delays, attempt, row>>
    /\ UNCHANGED <<csv, idx, company_counts, mxPrimary, mxFallback, mxCalls, output, uploads,
                   mails, result>>

\* One attempt, and tasks.py:199-204: the label the row gets once the call is over.
LlmAttempt(t, outcomes) ==
    /\ pc[t] = "llm"
    /\ \E outcome \in evaluate_lead(row[t], outcomes) :
          LET handler == RetryHandler(outcome, attempt[t])
          IN  /\ llmLog' = [llmLog EXCEPT ![t] = Append(@, outcome)]
              /\ IF handler = "sleep"
                 THEN /\ delays' = [delays EXCEPT ![t] = @ + 1]
                      /\ attempt' = [attempt EXCEPT ![t] = @ + 1]
                      /\ UNCHANGED <<row, pc>>
                 ELSE /\ row' = [row EXCEPT ![t] = DictSet(@, "Limpio",
                                    IF handler = "return" THEN LabelOf(outcome) ELSE "Error")]
                      /\ pc' = [pc EXCEPT ![t] = "write"]
                      /\ UNCHANGED <<delays, attempt>>
    /\ UNCHANGED <<csv, idx, company_counts, mxPrimary, mxFallback, mxCalls, fileVars, endVars>>

(***************************************************************************)
(* tasks.py:206  csv_writer.writerow(row).  csv.DictWriter raises          *)
(* ValueError for a key that is no fieldname (the None key of a row with   *)
(* surplus cells); otherwise it writes one line, the cells in fieldname    *)
(* order, None as the empty string and the bundle number in decimal.       *)
(***************************************************************************)
\* str() of a cell: the bundle number is the one int a row holds.
CellText(key, value) ==
    IF key = "Bundle" THEN ToString(value) ELSE IF value = None THEN "" ELSE value

DictWriterLine(fieldnames, r) ==
    [i \in 1..Len(fieldnames) |-> CellText(fieldnames[i], DictGet(r, fieldnames[i], ""))]

WrongFields(fieldnames, r) == Range(r.keys) \ Range(fieldnames)

WriteRow(t) ==
    /\ pc[t] = "write"
    /\ IF WrongFields(OutputHeader(csv[t].header), row[t]) # {}
       THEN /\ pc' = [pc EXCEPT ![t] = "except"]
            /\ exc' = [exc EXCEPT ![t] = "dict contains fields not in fieldnames"]
            /\ tmp' = [tmp EXCEPT ![t] = "closed"]
            /\ UNCHANGED output
       ELSE /\ output' = [output EXCEPT ![t] =
                            Append(@, DictWriterLine(OutputHeader(csv[t].header), row[t]))]
            /\ pc' = [pc EXCEPT ![t] = "rows"]
            /\ UNCHANGED <<exc, tmp>>
    /\ UNCHANGED <<csv, idx, company_counts, rowVars, uploads, mails, result>>

(***************************************************************************)
(* tasks.py:208-210  after the last row: flush, and the with block closes  *)
(* the temporary file.                                                     *)
(***************************************************************************)
Finalize(t) ==
    /\ pc[t] = "rows"
    /\ idx[t] = Len(csv[t].rows)
    /\ tmp' = [tmp EXCEPT ![t] = "closed"]
    /\ pc' = [pc EXCEPT ![t] = "upload"]
    /\ RowDone(t)
    /\ mxCalls' = [mxCalls EXCEPT ![t] = 0]
    /\ UNCHANGED <<csv, idx, company_counts, row, output, endVars>>

(***************************************************************************)
(* tasks.py:213-214 and 325-378  the upload: upload_to_google_drive        *)
(* returns a link or raises (ValueError without credentials, IOError for   *)
(* a Drive failure); the exception is caught at 223.                       *)
(***************************************************************************)
Upload(t, outcomes) ==
    /\ pc[t] = "upload"
    /\ uploads' = [uploads EXCEPT ![t] = @ + 1]
    /\ \E outcome \in outcomes :
          IF outcome = "link"
          THEN /\ pc' = [pc EXCEPT ![t] = "uploaded"]
               /\ UNCHANGED exc
          ELSE /\ pc' = [pc EXCEPT ![t] = "except"]
               /\ exc' = [exc EXCEPT ![t] = outcome]
    /\ UNCHANGED <<csv, idx, company_counts, rowVars, fileVars, mails, result>>

(***************************************************************************)
(* tasks.py:216-222  after a successful upload: delete the temporary file, *)
(* send the success email, return the link.                                *)
(***************************************************************************)
ReturnSuccess(t) ==
    /\ pc[t] = "uploaded"
    /\ tmp' = [tmp EXCEPT ![t] = "deleted"]
    /\ \E outcome \in MailOutcomes :
          mails' = [mails EXCEPT ![t] = send_email(@, "File Processing Complete", 2, outcome)]
    /\ result' = [result EXCEPT ![t] = [kind |-> "message", text |-> "link"]]
    /\ pc' = [pc EXCEPT ![t] = "done"]
    /\ UNCHANGED <<csv, idx, company_counts, rowVars, output, uploads, exc>>

(***************************************************************************)
(* tasks.py:223-230  the handler of every exception of the task: send the  *)
(* failure email, return the error.                                        *)
(***************************************************************************)
\* Variant: an exception of the SMTP exchange is not caught and replaces the one
\* being handled.
ReturnErrorMailRaises(t) ==
    /\ pc[t] = "except"
    /\ \E outcome \in MailOutcomes :
          /\ mails' = [mails EXCEPT ![t] = send_email(@, "Error Processing File", 1, outcome)]
          /\ result' = [result EXCEPT ![t] =
                IF outcome = "smtp error" THEN [kind |-> "error", text |-> outcome]
                ELSE [kind |-> "error", text |-> "Processing failed: " \o exc[t]]]
    /\ pc' = [pc EXCEPT ![t] = "done"]
    /\ UNCHANGED <<csv, idx, company_counts, rowVars, fileVars, uploads, exc>>

ReturnError(t) ==
    /\ pc[t] = "except"
    /\ \E outcome \in MailOutcomes :
          mails' = [mails EXCEPT ![t] = send_email(@, "Error Processing File", 1, outcome)]
    /\ result' = [result EXCEPT ![t] = [kind |-> "error", text |-> "Processing failed: " \o exc[t]]]
    /\ pc' = [pc EXCEPT ![t] = "done"]
    /\ UNCHANGED <<csv, idx, company_counts, rowVars, fileVars, uploads, exc>>

(***************************************************************************)
(* One step of any run, the environment drawing its answers from the given *)
(* sets.                                                                   *)
(***************************************************************************)
Step(primary, fallback, llm, upload) ==
    \E t \in Tasks :
        \/ clean_lead_list(t)
        \/ ParseHeader(t)
        \/ ReadRow(t)
        \/ MxPrimary(t, primary)
        \/ MxFallback(t, fallback)
        \/ LlmAttempt(t, llm)
        \/ WriteRow(t)
        \/ Finalize(t)
        \/ Upload(t, upload)
        \/ ReturnSuccess(t)
        \/ ReturnError(t)

(***************************************************************************)
(* The pipeline specification: one request, every input of up to MaxRows   *)
(* rows under the pipeline headers, one DNS answer, LLM outcome and upload *)
(* outcome of each kind.                                                   *)
(***************************************************************************)
Next == Step(FewPrimary, FewFallback, FewLlmOutcomes, UploadOutcomes)

Spec == Init /\ [][Next]_vars

(***************************************************************************)
(* The lookup specification: one row with an email address, and every DNS  *)
(* answer of up to MaxMx hostnames, in every order, from either lookup.    *)
(***************************************************************************)
LookupInputs ==
    {[header |-> <<"Email">>, rows |-> rs] : rs \in SeqUpTo({<<" a@x.com ">>, <<"nomail">>}, 1)}

InitMx == InitWith(LookupInputs)

NextMx == Step(PrimaryFailures \cup AllDnsAnswers, FallbackFailures \cup AllDnsAnswers,
               {"Text"}, UploadOutcomes)

SpecMx == InitMx /\ [][NextMx]_vars

(***************************************************************************)
(* The retry specification: one row, with or without a title cell, and     *)
(* every outcome of every evaluate_lead call.                              *)
(***************************************************************************)
RetryInputs ==
    {[header |-> <<"Company Name", "Title", "Email">>, rows |-> rs] :
        rs \in SeqUpTo({<<"Acme", "CEO", " a@x.com ">>, <<"Acme", "CEO">>, <<"Acme">>}, 1)}

InitRetry == InitWith(RetryInputs)

NextRetry == Step(FewPrimary, FewFallback, LlmOutcomes, UploadOutcomes)

SpecRetry == InitRetry /\ [][NextRetry]_vars

(***************************************************************************)
(* The bundling specification: inputs long enough for a company to pass    *)
(* its 50th, 51st, 100th and 101st row.  Row i is a "Beta" row when i is a *)
(* multiple of the input's period and an "Acme" row otherwise (period 0:   *)
(* every row is "Acme"), so the rows of the two companies interleave in a  *)
(* different way for each period; one more input has no company column at  *)
(* all.  The long rows hold no email and the LLM service always answers,   *)
(* which keeps one run per long input; the short inputs bring the rows     *)
(* whose lookup or classification fails.                                   *)
(***************************************************************************)
LongLen == 2 * (2 * BundleSize + 1)

LongRows(period, offset) ==
    [i \in 1..LongLen |->
        <<IF period > 0 /\ i % period = offset THEN "Beta" ELSE "Acme", "CEO">>]

LongInputs ==
    {[header |-> <<"Company Name", "Title">>, rows |-> LongRows(period, offset)] :
        period \in 0..MaxPeriod, offset \in 0..MaxPeriod - 1}
    \cup {[header |-> <<"Phone", "Title">>, rows |-> [i \in 1..LongLen |-> <<"x", "CEO">>]]}

\* Short inputs whose rows make the classification fail (a row cut short before
\* its title raises TypeError at tasks.py:273 on every attempt) or make the
\* lookup run.
FailingInputs ==
    {[header |-> <<"Company Name", "Title", "Email">>, rows |-> rs] :
        rs \in SeqUpTo({<<"Acme">>, <<"Beta">>, <<"Acme", "CEO", " a@x.com ">>}, MaxRows)}

InitBundle == InitWith(LongInputs \cup Inputs(PipelineHeaders, MaxRows) \cup FailingInputs)

NextBundle == Step(FewPrimary, FewFallback, {"Text"}, UploadOutcomes)

SpecBundle == InitBundle /\ [][NextBundle]_vars

(***************************************************************************)
(* The resolver specification: one row under every header of up to         *)
(* MaxColumns distinct column names, so that a header holds none, one or   *)
(* several columns of a pattern, in every position and order.              *)
(***************************************************************************)
ResolverNames ==
    {"COMPANY NAME", "Organization", "Email", "email address", "Title", "title", "Job Title"}

ResolverHeaders ==
    {h \in UNION {[1..n -> ResolverNames] : n \in 1..MaxColumns} :
        \A i, j \in DOMAIN h : i # j => h[i] # h[j]}

InitResolver == InitWith(Inputs(ResolverHeaders, 1))

NextResolver == Step(FewPrimary, FewFallback, {"Text"}, UploadOutcomes)

SpecResolver == InitResolver /\ [][NextResolver]_vars

(***************************************************************************)
(* The concurrency specification: every task slot holds a run, as when     *)
(* several Celery workers execute process_csv_task at once, and the steps  *)
(* of the runs interleave in every way.  The first run has BundleSize rows *)
(* of one company; each other run has one row, of that same company, so   *)
(* that the runs together pass the bundle boundary while none does alone.  *)
(***************************************************************************)
FullBundleInputs ==
    {[header |-> <<"Company Name", "Title">>, rows |-> [i \in 1..BundleSize |-> <<"Acme", "CEO">>]]}

SideInputs ==
    {[header |-> <<"Company Name", "Title", "Email">>, rows |-> <<<<"Acme", "CEO", " a@x.com ">>>>]}

InitConcurrent ==
    /\ pc = [t \in Tasks |-> "request"]
    /\ \E first \in FullBundleInputs : \E side \in SideInputs :
          csv = [t \in Tasks |-> IF t = 1 THEN first ELSE side]
    /\ idx = [t \in Tasks |-> 0]
    /\ company_counts = [t \in Tasks |-> <<>>]
    /\ row = [t \in Tasks |-> EmptyDict]
    /\ output = [t \in Tasks |-> <<>>]
    /\ tmp = [t \in Tasks |-> "none"]
    /\ uploads = [t \in Tasks |-> 0]
    /\ mails = [t \in Tasks |-> <<>>]
    /\ result = [t \in Tasks |-> NoResult]
    /\ exc = [t \in Tasks |-> ""]
    /\ attempt = [t \in Tasks |-> 0]
    /\ delays = [t \in Tasks |-> 0]
    /\ llmLog = [t \in Tasks |-> <<>>]
    /\ mxPrimary = [t \in Tasks |-> NotCalled]
    /\ mxFallback = [t \in Tasks |-> NotCalled]
    /\ mxCalls = [t \in Tasks |-> 0]

\* One answer of each collaborator along the way (the first lookup fails, the
\* second answers, the LLM service answers); the upload succeeds or fails.
NextConcurrent ==
    Step({DnsFailure("network")}, {DnsAnswer(<<"aspmx.l.google.com">>)}, {"Text"},
         {"link", "Google Drive upload failed"})

SpecConcurrent == InitConcurrent /\ [][NextConcurrent]_vars

(***************************************************************************)
(* What the claims speak of.                                               *)
(***************************************************************************)
\* The run has returned.
Returned(t) == pc[t] = "done"
\* The terminal states of the Dataset Processor.
HeaderMissing(t) ==
    Returned(t) /\ result[t] = [kind |-> "error", text |-> "CSV data is missing headers."]
UploadSucceeded(t) == Returned(t) /\ result[t].kind = "message"
UploadFailed(t) == Returned(t) /\ result[t].kind = "error" /\ uploads[t] > 0

Subjects(t) == {mails[t][i].subject : i \in 1..Len(mails[t])}

\* The place, in the header, of the first column a pattern accepts (0: none).
FirstColumn(header, columns) ==
    IF \E i \in 1..Len(header) : header[i] \in columns
    THEN Min({i \in 1..Len(header) : header[i] \in columns})
    ELSE 0

\* The cell of an input line under that column: None when the line is cut short
\* before it.
CellUnder(header, columns, values) ==
    LET i == FirstColumn(header, columns)
    IN  IF i = 0 \/ i > Len(values) THEN None ELSE values[i]

\* The company an input line counts for.
GroupOf(header, values) ==
    IF FirstColumn(header, CompanyColumns) = 0 THEN "Unknown Company"
    ELSE CellUnder(header, CompanyColumns, values)

\* The 1-based occurrence index of line j's company among lines 1..j of the input.
Occurrence(input, j) ==
    Cardinality({i \in 1..j :
        GroupOf(input.header, input.rows[i]) = GroupOf(input.header, input.rows[j])})

\* The derived cells of the j-th written line (the header is line 1 of the file).
LimpioCell(t, j) == output[t][j + 1][Len(csv[t].header) + 1]
BundleCell(t, j) == output[t][j + 1][Len(csv[t].header) + 2]
MxCell(t, j) == output[t][j + 1][Len(csv[t].header) + 3]
Written(t) == IF output[t] = <<>> THEN 0 ELSE Len(output[t]) - 1

(***************************************************************************)
(* C1.  A payload without a header row ends in HeaderMissing: once the     *)
(* task has run, it has returned the missing-header error, has consumed no *)
(* row, has never called the upload, has created no output file and has    *)
(* sent no success notification.                                           *)
(***************************************************************************)
C1_HeaderMissing ==
    \A t \in Tasks :
        (csv[t].header = <<>> /\ pc[t] \notin {"off", "request", "queued", "rejected"})
        => /\ HeaderMissing(t)
           /\ idx[t] = 0
           /\ uploads[t] = 0
           /\ output[t] = <<>>
           /\ tmp[t] = "none"
           /\ "File Processing Complete" \notin Subjects(t)

C1_Witness == \E t \in Tasks : csv[t].header = <<>> /\ HeaderMissing(t)

(***************************************************************************)
(* C2.  Every run that has returned has sent exactly one notification: the *)
(* success email when it returned a link, the failure email when it        *)
(* returned an error (missing header included).                            *)
(***************************************************************************)
C2_OneNotification ==
    \A t \in Tasks :
        Returned(t)
        => /\ Len(mails[t]) = 1
           /\ UploadSucceeded(t) => Subjects(t) = {"File Processing Complete"}
           /\ (UploadFailed(t) \/ HeaderMissing(t)) => Subjects(t) = {"Error Processing File"}

(***************************************************************************)
(* C3.  The k-th line of a company, in arrival order and however the lines *)
(* of other companies fall between, is written with Bundle =               *)
(* floor((k-1)/50) + 1: the 50th with 1, the 51st with 2, the 100th with   *)
(* 2, the 101st with 3.                                                    *)
(***************************************************************************)
\* Lines j.. of the output carry the bundle of their occurrence index, `seen`
\* holding how many lines each company has had among lines 1..j-1 of the input.
RECURSIVE BundlesFrom(_, _, _)
BundlesFrom(t, j, seen) ==
    IF j > Written(t) THEN TRUE
    ELSE LET company == GroupOf(csv[t].header, csv[t].rows[j])
             k == (IF company \in DOMAIN seen THEN seen[company] ELSE 0) + 1
         IN  /\ BundleCell(t, j) = ToString((k - 1) \div 50 + 1)
             /\ k = 50 => BundleCell(t, j) = "1"
             /\ k = 51 => BundleCell(t, j) = "2"
             /\ k = 100 => BundleCell(t, j) = "2"
             /\ k = 101 => BundleCell(t, j) = "3"
             /\ BundlesFrom(t, j + 1, (company :> k) @@ seen)

C3_BundleOfKth == \A t \in Tasks : BundlesFrom(t, 1, <<>>)

\* Two companies interleave and the line just written is the 101st of its company.
C3_Witness ==
    \E t \in Tasks :
        /\ Written(t) > 101
        /\ Occurrence(csv[t], Written(t)) = 101
        /\ BundleCell(t, Written(t)) = "3"

(***************************************************************************)
(* C4.  A failed classification or a failed lookup never aborts the run:   *)
(* the row goes on to the write step with Limpio = "Error" (MX Result =    *)
(* "ERROR"), it is written, the run is in the exception handler before the *)
(* upload only for a row with surplus cells, and a run whose rows have no  *)
(* surplus cells writes every row, attempts the upload once and returns    *)
(* the link when the upload gave one.                                      *)
(***************************************************************************)
ClassificationFailed(t) ==
    llmLog[t] # <<>> /\ llmLog[t][Len(llmLog[t])] \notin LlmReturns
LookupFailed(t) == mxFallback[t].called /\ mxFallback[t].status # "ok"
NoSurplus(input) == \A i \in 1..Len(input.rows) : Len(input.rows[i]) <= Len(input.header)

C4_RowFailureIsolated ==
    \A t \in Tasks :
        /\ (pc[t] = "write" /\ ClassificationFailed(t)) => row[t].val["Limpio"] = "Error"
        /\ (pc[t] \in {"llm", "write"} /\ LookupFailed(t)) => row[t].val["MX Result"] = "ERROR"
        /\ (pc[t] = "rows" /\ ClassificationFailed(t))
           => (Written(t) = idx[t] /\ LimpioCell(t, idx[t]) = "Error")
        /\ (pc[t] = "rows" /\ LookupFailed(t))
           => (Written(t) = idx[t] /\ MxCell(t, idx[t]) = "ERROR")
        /\ (pc[t] = "except" /\ uploads[t] = 0) => HasKey(row[t], None)
        /\ (Returned(t) /\ csv[t].header # <<>> /\ NoSurplus(csv[t]))
           => /\ Written(t) = Len(csv[t].rows)
              /\ uploads[t] = 1
              /\ exc[t] = "" => result[t] = [kind |-> "message", text |-> "link"]

\* A run that returned the link although one of its rows failed classification
\* and one failed both lookups.
C4_Witness ==
    \E t \in Tasks :
        /\ UploadSucceeded(t)
        /\ \E j \in 1..Written(t) : LimpioCell(t, j) = "Error"
        /\ \E j \in 1..Written(t) : MxCell(t, j) = "ERROR"

(***************************************************************************)
(* C5.  evaluate_lead_with_retry makes at most 3 attempts and sleeps once  *)
(* after each failed attempt but the last: when it is over it has made n   *)
(* <= 3 attempts and n - 1 <= 2 delays, every attempt before the last was  *)
(* a retryable failure, a returned value (label, Blocked marker, No        *)
(* Content marker) is the row's label, and a retryable failure is the last *)
(* attempt only as the 3rd, with the label "Error".  Two timeouts and a    *)
(* success give the label after exactly 2 delays.                          *)
(***************************************************************************)
C5_RetryBudget ==
    \A t \in Tasks :
        LET n == Len(llmLog[t])
            last == llmLog[t][n]
        IN  /\ n <= 3
            /\ delays[t] <= 2
            /\ pc[t] = "llm" =>
                  /\ delays[t] = n
                  /\ \A i \in 1..n : llmLog[t][i] \in LlmRetryable
            /\ pc[t] = "write" =>
                  /\ n >= 1
                  /\ delays[t] = n - 1
                  /\ \A i \in 1..(n - 1) : llmLog[t][i] \in LlmRetryable
                  /\ last \in LlmReturns => row[t].val["Limpio"] = LabelOf(last)
                  /\ last \in LlmRetryable => (n = 3 /\ row[t].val["Limpio"] = "Error")
                  /\ llmLog[t] = <<"DeadlineExceeded", "DeadlineExceeded", "Text">>
                     => (row[t].val["Limpio"] = "Si" /\ delays[t] = 2)

C5_Witness ==
    \E t \in Tasks :
        /\ pc[t] = "write"
        /\ llmLog[t] = <<"DeadlineExceeded", "DeadlineExceeded", "Text">>
        /\ delays[t] = 2
        /\ row[t].val["Limpio"] = "Si"

(***************************************************************************)
(* C6.  An authentication or permission error, on whichever attempt, is    *)
(* the last attempt for the row: no attempt and no delay follows it, and   *)
(* the row's label is "Error".                                             *)
(***************************************************************************)
C6_FatalEndsAtOnce ==
    \A t \in Tasks : \A i \in 1..Len(llmLog[t]) :
        llmLog[t][i] \in LlmFatal
        => /\ i = Len(llmLog[t])
           /\ delays[t] = i - 1
           /\ pc[t] # "llm"
           /\ row[t].val["Limpio"] = "Error"

\* The error came on a later attempt, after one delay.
C6_Witness ==
    \E t \in Tasks :
        /\ pc[t] = "write"
        /\ llmLog[t] = <<"ResourceExhausted", "Unauthenticated">>
        /\ delays[t] = 1
        /\ row[t].val["Limpio"] = "Error"

(***************************************************************************)
(* C7.  Within the lookup that answered, the result depends on the set of  *)
(* MX hostnames only: none: "No MX Records"; some hostname of the Outlook  *)
(* family (whatever else is there, and also when that hostname is of the   *)
(* Gmail family too): "Outlook"; else some hostname of the Gmail family:   *)
(* "Gmail"; else "Other".                                                  *)
(***************************************************************************)
Answered(t) == IF mxPrimary[t].status = "ok" THEN mxPrimary[t] ELSE mxFallback[t]

ProviderOfSet(hostnames) ==
    IF hostnames = {} THEN "No MX Records"
    ELSE IF \E mx \in hostnames : IsOutlook(mx) THEN "Outlook"
    ELSE IF \E mx \in hostnames : IsGmail(mx) THEN "Gmail"
    ELSE "Other"

C7_ProviderOfSet ==
    \A t \in Tasks :
        (pc[t] \in {"llm", "write"} /\ Answered(t).status = "ok")
        => row[t].val["MX Result"] = ProviderOfSet(Range(Answered(t).answers))

(***************************************************************************)
(* C8.  mx_lookup makes the fallback lookup exactly when the primary       *)
(* lookup failed; a primary answer is the result; two failures give        *)
(* "ERROR"; it never raises, and its result is one of Gmail, Outlook,      *)
(* Other, No MX Records, ERROR.                                            *)
(***************************************************************************)
LookupResults == {"Gmail", "Outlook", "Other", "No MX Records", "ERROR"}

EmailCell(t) == CellUnder(csv[t].header, EmailColumns, csv[t].rows[idx[t]])

C9_LookupOnlyForAddress ==
    \A t \in Tasks :
        /\ mxCalls[t] <= 1
        /\ pc[t] \in {"mx1", "mx2"} => mxCalls[t] = 1
        /\ pc[t] \in {"mx1", "mx2", "llm", "write"} =>
              LET cell == EmailCell(t)
                  filled == cell # None /\ cell # ""
              IN  /\ mxCalls[t] = 1 <=> (filled /\ HasAt(cell))
                  /\ mxCalls[t] = 0 => ~mxPrimary[t].called /\ ~mxFallback[t].called
                  /\ (pc[t] \in {"llm", "write"} /\ filled /\ ~HasAt(cell))
                     => row[t].val["MX Result"] = "Invalid Email"
                  /\ (pc[t] \in {"llm", "write"} /\ ~filled)
                     => row[t].val["MX Result"] = "No Email"

\* A row with an address has had its one lookup and is about to be written.
C9_Witness ==
    \E t \in Tasks :
        /\ pc[t] = "write"
        /\ HasAt(EmailCell(t))
        /\ mxCalls[t] = 1
        /\ mxPrimary[t].called

(***************************************************************************)
(* C10.  Once a run has reached Finalizing, the output holds the header    *)
(* input-header ++ [Limpio, Bundle, MX Result] and then one line per input *)
(* row, in arrival order, each with the cells of its input row (a missing  *)
(* cell empty) and the three derived cells, MX Result being one of the     *)
(* seven provider results; no input row of such a run has surplus cells.   *)
(***************************************************************************)
Finalized(t) ==
    \/ pc[t] \in {"upload", "uploaded"}
    \/ pc[t] \in {"except", "done"} /\ uploads[t] = 1

ProviderResults == LookupResults \cup {"Invalid Email", "No Email"}

C10_OutputTable ==
    \A t \in Tasks :
        Finalized(t)
        => /\ output[t][1] = csv[t].header \o <<"Limpio", "Bundle", "MX Result">>
           /\ Written(t) = Len(csv[t].rows)
           /\ NoSurplus(csv[t])
           /\ \A j \in 1..Written(t) :
                 LET line == output[t][j + 1]
                     values == csv[t].rows[j]
                 IN  /\ Len(line) = Len(csv[t].header) + 3
                     /\ \A c \in 1..Len(csv[t].header) :
                           line[c] = IF c <= Len(values) THEN values[c] ELSE ""
                     /\ LimpioCell(t, j) # ""
                     /\ BundleCell(t, j) \in {ToString(n) : n \in 1..Len(csv[t].rows)}
                     /\ MxCell(t, j) \in ProviderResults

\* Two rows, one of them cut short, both written.
C10_Witness ==
    \E t \in Tasks :
        /\ pc[t] = "upload"
        /\ Written(t) = 2
        /\ \E j \in 1..2 : Len(csv[t].rows[j]) < Len(csv[t].header)

(***************************************************************************)
(* C11.  A run that has returned gave the link exactly when the upload     *)
(* returned one and an error otherwise; the error is that of a missing     *)
(* header or of a failed upload; a failed upload is reported as an upload  *)
(* failure, not as a processing failure, and no success email is sent for  *)
(* it.                                                                     *)
(***************************************************************************)
\* str(e) of the exceptions raised while the rows are processed.
ProcessingExceptions ==
    {"expected string or bytes-like object", "dict contains fields not in fieldnames"}
\* str(e) of the exceptions upload_to_google_drive raises.
UploadExceptions == UploadOutcomes \ {"link"}

\* What the result of a run aborted while processing its rows looks like.
ReportedAsProcessingFailure(r) ==
    r.kind = "error" /\ \E e \in ProcessingExceptions \cup UploadExceptions :
                            r.text = "Processing failed: " \o e

UploadReturnedLink(t) == uploads[t] = 1 /\ exc[t] = ""

C11_TaskResult ==
    \A t \in Tasks :
        Returned(t)
        => /\ result[t].kind \in {"message", "error"}
           /\ result[t].kind = "message" <=> UploadReturnedLink(t)
           /\ result[t].kind = "error" => (HeaderMissing(t) \/ UploadFailed(t))
           /\ UploadFailed(t)
              => /\ ~ReportedAsProcessingFailure(result[t])
                 /\ "File Processing Complete" \notin Subjects(t)

(***************************************************************************)
(* C12.  The step that calls send_email is the step that returns, and the  *)
(* result it returns is fixed by the state before the call: the link after *)
(* a successful upload, "Processing failed: " and the exception text in    *)
(* the handler.  Whatever becomes of the message (sent, credentials        *)
(* missing, SMTP error), the run returns that same result; send_email      *)
(* never raises, so no run is left in or sent to the exception handler by  *)
(* a notification.                                                         *)
(***************************************************************************)
\* The result the run is about to return, read before send_email is called.
ResultBeforeMail(t) ==
    IF pc[t] = "uploaded" THEN [kind |-> "message", text |-> "link"]
    ELSE [kind |-> "error", text |-> "Processing failed: " \o exc[t]]

C12_NotificationNeverChangesResult ==
    [][\A t \in Tasks :
          mails'[t] # mails[t]
          => /\ pc[t] \in {"uploaded", "except"}
             /\ Len(mails'[t]) = Len(mails[t]) + 1
             /\ pc'[t] = "done"
             /\ exc'[t] = exc[t]
             /\ result'[t] = ResultBeforeMail(t)]_vars

\* A run that returned the link although its success email was not sent.
C12_Witness ==
    \E t \in Tasks :
        /\ UploadSucceeded(t)
        /\ Len(mails[t]) = 1
        /\ mails[t][1].outcome = "smtp error"
        /\ result[t] = [kind |-> "message", text |-> "link"]

(***************************************************************************)
(* C13.  A row with more cells than the header is skipped: it is not       *)
(* written, the rows after it are still processed, and the run reaches     *)
(* Finalizing, so that a run that has returned after a header has written  *)
(* exactly its well-formed rows and has attempted the upload.              *)
(***************************************************************************)
Malformed(input, i) == Len(input.rows[i]) > Len(input.header)

WellFormedRows(input) == {i \in 1..Len(input.rows) : ~Malformed(input, i)}

C13_MalformedRowSkipped ==
    \A t \in Tasks :
        /\ (pc[t] = "except" /\ uploads[t] = 0) => ~HasKey(row[t], None)
        /\ (Returned(t) /\ csv[t].header # <<>>)
           => /\ idx[t] = Len(csv[t].rows)
              /\ Written(t) = Cardinality(WellFormedRows(csv[t]))
              /\ uploads[t] = 1

(***************************************************************************)
(* C14.  Under a header without a company column every row counts for the  *)
(* one company "Unknown Company": after n rows the counters hold that      *)
(* single key with the value n, and the k-th written line carries Bundle = *)
(* floor((k-1)/50) + 1, so the 51st such row starts bundle 2.              *)
(***************************************************************************)
NoCompanyColumn(t) ==
    csv[t].header # <<>> /\ FirstColumn(csv[t].header, CompanyColumns) = 0

\* The rows that have passed the bundle step: all the rows read, but a row with
\* surplus cells that raised at the company resolution and ended the run.
Counted(t) == IF pc[t] \in {"except", "done"} /\ idx[t] > 0 /\ ~HasKey(row[t], "Bundle")
              THEN idx[t] - 1 ELSE idx[t]

C14_UnknownCompanyBundled ==
    \A t \in Tasks :
        NoCompanyColumn(t)
        => /\ Counted(t) > 0 => company_counts[t] = ("Unknown Company" :> Counted(t))
           /\ Counted(t) = 0 => company_counts[t] = <<>>
           /\ \A k \in 1..Written(t) : BundleCell(t, k) = ToString((k - 1) \div 50 + 1)
           /\ Written(t) >= 51 => BundleCell(t, 50) = "1" /\ BundleCell(t, 51) = "2"

\* The 101st row without a company has been written, with bundle 3.
C14_Witness ==
    \E t \in Tasks :
        /\ NoCompanyColumn(t)
        /\ Written(t) = 101
        /\ BundleCell(t, 101) = "3"
        /\ company_counts[t]["Unknown Company"] = 101

(***************************************************************************)
(* C15.  For every row read and each of the three fields, the resolver     *)
(* returns the first column of the header, in header order, that the       *)
(* field's pattern accepts, or not-found when the header holds none; it    *)
(* never raises.  The company the row is counted for is the cell under     *)
(* that first company column.                                              *)
(***************************************************************************)
ColumnsOf(pattern) ==
    CASE pattern = "company" -> CompanyColumns
      [] pattern = "email" -> EmailColumns
      [] pattern = "title" -> TitleColumns

\* What the resolver is to return for a header.
FirstMatch(header, pattern) ==
    LET i == FirstColumn(header, ColumnsOf(pattern))
    IN  IF i = 0 THEN [tag |-> "none", key |-> None] ELSE [tag |-> "key", key |-> header[i]]

RowRead(t) == idx[t] > 0 /\ pc[t] \in {"mx1", "mx2", "llm", "write", "except", "rows", "upload"}

C15_FirstMatchInHeaderOrder ==
    \A t \in Tasks :
        (RowRead(t) /\ row[t] # EmptyDict)
        => /\ \A pattern \in {"company", "email", "title"} :
                 ResolveKey(row[t].keys, pattern) = FirstMatch(csv[t].header, pattern)
           /\ DOMAIN company_counts[t] = {GroupOf(csv[t].header, csv[t].rows[idx[t]])}

(***************************************************************************)
(* C16.  A run moves Start -> ParsingHeader -> HeaderMissing or            *)
(* ProcessingRows -> Finalizing -> UploadSucceeded or UploadFailed.  In    *)
(* states: the exception handler is entered from the upload only; a run    *)
(* that has returned is in exactly one of the three terminal states; the   *)
(* upload is called at most once, and when it has been called every input  *)
(* row has been read and written.                                          *)
(***************************************************************************)
TerminalStates(t) ==
    {s \in {"HeaderMissing", "UploadSucceeded", "UploadFailed"} :
        \/ s = "HeaderMissing" /\ HeaderMissing(t)
        \/ s = "UploadSucceeded" /\ UploadSucceeded(t)
        \/ s = "UploadFailed" /\ UploadFailed(t)}

C16_StateMachine ==
    \A t \in Tasks :
        /\ pc[t] = "except" => uploads[t] = 1
        /\ Returned(t) => Cardinality(TerminalStates(t)) = 1
        /\ uploads[t] <= 1
        /\ uploads[t] = 1 => (idx[t] = Len(csv[t].rows) /\ Written(t) = Len(csv[t].rows))

(***************************************************************************)
(* C17.  The counters are empty until the first row; after n rows have     *)
(* passed the bundle step they hold exactly the companies of those rows,   *)
(* each with the number of its rows, so they sum to n, whatever became of  *)
(* the rows' lookups and classifications; a step never removes or lowers a *)
(* counter and raises at most one, by one, and then it is the step that    *)
(* reads a row; and the line just written carries a bundle number no       *)
(* smaller than any earlier line of its company.                           *)
(***************************************************************************)
RowsOf(t, company, n) ==
    {i \in 1..n : GroupOf(csv[t].header, csv[t].rows[i]) = company}

RECURSIVE SumOf(_, _)
SumOf(counts, S) ==
    IF S = {} THEN 0 ELSE LET c == CHOOSE x \in S : TRUE IN counts[c] + SumOf(counts, S \ {c})

BundleValue(cell) == CHOOSE n \in 1..(LongLen \div BundleSize + 1) : ToString(n) = cell

CounterState(t) ==
    /\ idx[t] = 0 => company_counts[t] = <<>>
    /\ DOMAIN company_counts[t] = {GroupOf(csv[t].header, csv[t].rows[i]) : i \in 1..Counted(t)}
    /\ \A c \in DOMAIN company_counts[t] :
          company_counts[t][c] = Cardinality(RowsOf(t, c, Counted(t)))
    /\ SumOf(company_counts[t], DOMAIN company_counts[t]) = Counted(t)
    /\ \A i \in 1..Written(t) :
          GroupOf(csv[t].header, csv[t].rows[i]) = GroupOf(csv[t].header, csv[t].rows[Written(t)])
          => BundleValue(BundleCell(t, i)) <= BundleValue(BundleCell(t, Written(t)))

CounterStep(t) ==
    LET old == company_counts[t]
        new == company_counts'[t]
        raised == {c \in DOMAIN new : c \notin DOMAIN old \/ new[c] # old[c]}
    IN  /\ DOMAIN old \subseteq DOMAIN new
        /\ \A c \in DOMAIN old : new[c] >= old[c]
        /\ Cardinality(raised) <= 1
        /\ \A c \in raised : /\ new[c] = (IF c \in DOMAIN old THEN old[c] ELSE 0) + 1
                             /\ idx'[t] = idx[t] + 1
        /\ (idx'[t] # idx[t] /\ HasKey(row'[t], "Bundle")) => Cardinality(raised) = 1

C17_CounterState ==
    /\ [](\A t \in Tasks : CounterState(t))
    /\ [][\A t \in Tasks : CounterStep(t)]_vars

\* Two rows of one company have been written, the first with a failed
\* classification and the second with a failed lookup, and the counter is 2.
C17_Witness ==
    \E t \in Tasks :
        /\ pc[t] = "rows"
        /\ Written(t) = 2
        /\ LimpioCell(t, 1) = "Error"
        /\ MxCell(t, 2) = "ERROR"
        /\ company_counts[t] = ("Acme" :> 2)

(***************************************************************************)
(* C18.  Within a row the steps come in the order bundle, provider (or     *)
(* email sentinel), classification with all its attempts and delays,       *)
(* write; and row i is written before any step of row i+1: while a row is  *)
(* in the lookup it has its Bundle and neither MX Result nor Limpio, while *)
(* it is classified it has Bundle and MX Result and no Limpio, when it is  *)
(* written it has all three, the delays are made during the               *)
(* classification only, and all the rows before it are already written.    *)
(***************************************************************************)
Has(t, key) == HasKey(row[t], key)

RowOrderState(t) ==
    /\ pc[t] \in {"mx1", "mx2", "llm", "write"} => Written(t) = idx[t] - 1
    /\ pc[t] \in {"rows", "upload", "uploaded"} => Written(t) = idx[t]
    /\ pc[t] \in {"mx1", "mx2"}
       => (Has(t, "Bundle") /\ ~Has(t, "MX Result") /\ ~Has(t, "Limpio") /\ llmLog[t] = <<>>)
    /\ pc[t] = "llm" => (Has(t, "Bundle") /\ Has(t, "MX Result") /\ ~Has(t, "Limpio"))
    /\ pc[t] = "write"
       => (Has(t, "Bundle") /\ Has(t, "MX Result") /\ Has(t, "Limpio") /\ llmLog[t] # <<>>)
    /\ \A j \in 1..Written(t) :
          \A c \in 1..Len(csv[t].header) :
              output[t][j + 1][c] = CellText(csv[t].header[c],
                  IF c <= Len(csv[t].rows[j]) THEN csv[t].rows[j][c] ELSE None)

RowOrderStep(t) ==
    /\ idx'[t] # idx[t] => (pc[t] = "rows" /\ idx'[t] = idx[t] + 1 /\ Written(t) = idx[t])
    /\ output'[t] # output[t]
       => \/ pc[t] = "queued"
          \/ pc[t] = "write" /\ pc'[t] = "rows" /\ Len(output'[t]) = Len(output[t]) + 1
                /\ SubSeq(output'[t], 1, Len(output[t])) = output[t]
    /\ (delays'[t] > delays[t] \/ Len(llmLog'[t]) > Len(llmLog[t])) => pc[t] = "llm"
    /\ (mxPrimary'[t] # mxPrimary[t] /\ mxPrimary'[t].called) => pc[t] = "mx1"
    /\ (mxFallback'[t] # mxFallback[t] /\ mxFallback'[t].called) => pc[t] = "mx2"
    /\ pc[t] = "mx1" => pc'[t] \in {"mx1", "mx2", "llm"}
    /\ pc[t] = "mx2" => pc'[t] \in {"mx2", "llm"}
    /\ pc[t] = "llm" => pc'[t] \in {"llm", "write"}

C18_RowsInOrder ==
    /\ [](\A t \in Tasks : RowOrderState(t))
    /\ [][\A t \in Tasks : RowOrderStep(t)]_vars

\* The second row is in its second classification attempt, after a lookup, while
\* the first row, and only the first, is in the output.
C18_Witness ==
    \E t \in Tasks :
        /\ pc[t] = "llm"
        /\ idx[t] = 2
        /\ Written(t) = 1
        /\ mxPrimary[t].called
        /\ delays[t] = 1

(***************************************************************************)
(* C19.  With several runs interleaved, each run's counters hold the       *)
(* counts of its own rows only, and the bundle of the row a run is         *)
(* processing, like that of the line it wrote last, is the one of the      *)
(* row's occurrence index within the run's own input: the number the run   *)
(* assigns when it runs alone.                                             *)
(***************************************************************************)
\* floor((k-1)/50) + 1 for the k-th row of its company in this input alone.
SoloBundle(input, j) == (Occurrence(input, j) - 1) \div 50 + 1

C19_RunsIsolated ==
    \A t \in Tasks :
        /\ \A c \in DOMAIN company_counts[t] :
              company_counts[t][c] = Cardinality(RowsOf(t, c, Counted(t)))
        /\ pc[t] \in {"mx1", "mx2", "llm", "write"}
           => row[t].val["Bundle"] = SoloBundle(csv[t], idx[t])
        /\ Written(t) > 0
           => BundleCell(t, Written(t)) = ToString(SoloBundle(csv[t], Written(t)))

\* Two runs are in their row loops at once and have together counted more rows
\* of the same company than one bundle holds.
C19_Witness ==
    \E t, u \in Tasks :
        /\ t # u
        /\ pc[t] \in {"llm", "write"} /\ pc[u] \in {"mx1", "mx2", "llm", "write"}
        /\ "Acme" \in DOMAIN company_counts[t] /\ "Acme" \in DOMAIN company_counts[u]
        /\ company_counts[t]["Acme"] + company_counts[u]["Acme"] > 50
        /\ row[t].val["Bundle"] = 1 /\ row[u].val["Bundle"] = 1

(***************************************************************************)
(* C20.  The temporary file does not outlive the run: once the run has     *)
(* returned, a file that was created has been deleted, in UploadSucceeded, *)
(* in UploadFailed and after an abort during the row processing.           *)
(***************************************************************************)
C20_TempFileDeleted ==
    \A t \in Tasks : (Returned(t) /\ tmp[t] # "none") => tmp[t] = "deleted"

====
